---- MODULE Spec2Model ----
(***************************************************************************)
(* The lazy query-construction and resolution engine of the deno client:   *)
(* chainable objects (BaseClient and its subclasses) that accumulate a     *)
(* QueryTree[] through deferred methods, terminal methods that hand the    *)
(* tree to computeQuery, and the lifting of array results into objects.    *)
(*                                                                         *)
(* JavaScript objects are modelled as heap cells: `nodes` holds the        *)
(* QueryTree node objects, `arrays` the QueryTree[] array objects, `objs`  *)
(* the chainable objects.  A reference is an index into its heap, so that  *)
(* sharing (a spread copies the array but not the nodes, a lifted object   *)
(* receives the parent's array itself) is visible in the model.            *)
(***************************************************************************)
EXTENDS Integers, Sequences, FiniteSets, TLC

VARIABLES
    nodes,      \* heap of QueryTree node objects {operation, args}
    arrays,     \* heap of QueryTree[] array objects: sequences of node refs
    objs,       \* heap of chainable objects
    calls,      \* terminal method invocations (running or finished)
    nsent,      \* how many requests were handed to the transport
    effects,    \* engine side: how many times an export was executed
    env         \* process environment: the value of FLUENTCI_SESSION_ID

vars == <<nodes, arrays, objs, calls, nsent, effects, env>>

(***************************************************************************)
(* Bounds of the exploration.                                              *)
(***************************************************************************)
MaxDeferred == 3    \* deferred method calls made by the caller
MaxCalls == 2       \* terminal method calls made by the caller
MaxChain == 2       \* deferred method calls made in a session
MaxSessionCalls == 1 \* terminal method calls made in a session

(***************************************************************************)
(* Values.  JavaScript values are untyped; the tag t is the typeof.        *)
(***************************************************************************)
Undef == [t |-> "undefined", v |-> 0]
Str(s) == [t |-> "string", v |-> s]
Num(n) == [t |-> "number", v |-> n]
Bool(b) == [t |-> "boolean", v |-> b]
Arr(s) == [t |-> "array", v |-> s]
Obj(o) == [t |-> "object", v |-> o]
Meta(keys) == [t |-> "metadata", v |-> keys]

\* JavaScript truthiness, as used by `if (this._x)`.
Truthy(val) ==
    CASE val.t = "undefined" -> FALSE
      [] val.t = "string" -> val.v # ""
      [] val.t = "chars" -> val.v # <<>>
      [] val.t = "number" -> val.v # 0
      [] val.t = "boolean" -> val.v
      [] OTHER -> TRUE

\* One property of an object literal, in insertion order.
Prop(k, val) == [k |-> k, v |-> val]

\* Lookup of property k in a sequence of properties (undefined when absent).
Get(props, k) ==
    IF \E i \in DOMAIN props : props[i].k = k
    THEN props[CHOOSE i \in DOMAIN props : props[i].k = k].v
    ELSE Undef

(***************************************************************************)
(* Strings that the constructor takes apart (host, session token, the      *)
(* environment variable) are sequences of one-character strings.           *)
(***************************************************************************)
Chars(cs) == [t |-> "chars", v |-> cs]

\* The characters in one piece, for template literals and concatenation.
RECURSIVE Join(_)
Join(cs) == IF cs = <<>> THEN "" ELSE Head(cs) \o Join(Tail(cs))

\* String(x), as applied by `x + ":"` and by `${x}`.
ToChars(val) ==
    IF val.t = "undefined" THEN <<"u", "n", "d", "e", "f", "i", "n", "e", "d">>
    ELSE val.v

Upper == <<"A", "B", "C", "D", "E", "F", "G", "H", "I", "J", "K", "L", "M",
           "N", "O", "P", "Q", "R", "S", "T", "U", "V", "W", "X", "Y", "Z">>
Lower == <<"a", "b", "c", "d", "e", "f", "g", "h", "i", "j", "k", "l", "m",
           "n", "o", "p", "q", "r", "s", "t", "u", "v", "w", "x", "y", "z">>
Digit == <<"0", "1", "2", "3", "4", "5", "6", "7", "8", "9">>

Index(seq, ch) == CHOOSE i \in DOMAIN seq : seq[i] = ch
In(seq, ch) == \E i \in DOMAIN seq : seq[i] = ch

\* The code unit of a character (of those the inputs are written in).
Code(ch) ==
    CASE In(Upper, ch) -> 64 + Index(Upper, ch)
      [] In(Lower, ch) -> 96 + Index(Lower, ch)
      [] In(Digit, ch) -> 47 + Index(Digit, ch)
      [] ch = "-" -> 45
      [] ch = "." -> 46
      [] ch = ":" -> 58

\* btoa: three bytes become four characters of the alphabet, a last group
\* of one or two bytes is padded with "=".
Alphabet == Upper \o Lower \o Digit \o <<"+", "/">>

RECURSIVE Base64(_)
Base64(bytes) ==
    IF bytes = <<>> THEN <<>>
    ELSE LET b2 == IF Len(bytes) > 1 THEN bytes[2] ELSE 0
             b3 == IF Len(bytes) > 2 THEN bytes[3] ELSE 0
             n == bytes[1] * 65536 + b2 * 256 + b3
         IN  << Alphabet[(n \div 262144) + 1],
                Alphabet[((n \div 4096) % 64) + 1],
                IF Len(bytes) > 1 THEN Alphabet[((n \div 64) % 64) + 1] ELSE "=",
                IF Len(bytes) > 2 THEN Alphabet[(n % 64) + 1] ELSE "=" >>
             \o Base64(SubSeq(bytes, 4, Len(bytes)))

btoa(cs) == Base64([i \in DOMAIN cs |-> Code(cs[i])])

\* clientHost.startsWith(prefix)
startsWith(cs, prefix) ==
    Len(cs) >= Len(prefix) /\ SubSeq(cs, 1, Len(prefix)) = prefix

\* clientHost.split(":")[0]: the characters before the first colon.
BeforeColon(cs) ==
    IF In(cs, ":")
    THEN SubSeq(cs, 1, (CHOOSE i \in DOMAIN cs :
                          cs[i] = ":" /\ \A j \in 1..(i - 1) : cs[j] # ":") - 1)
    ELSE cs

\* /(?:[0-9]{1,3}\.){3}[0-9]{1,3}/ tried at position i, with g groups of
\* "one to three digits and a dot" still to match before the last digits.
RECURSIVE MatchAt(_, _, _)
MatchAt(cs, i, g) ==
    IF g = 0 THEN i <= Len(cs) /\ In(Digit, cs[i])
    ELSE \E n \in 1..3 :
            /\ i + n <= Len(cs)
            /\ \A k \in i..(i + n - 1) : In(Digit, cs[k])
            /\ cs[i + n] = "."
            /\ MatchAt(cs, i + n + 1, g - 1)

\* String.prototype.match with a regular expression that has no anchors:
\* the pattern is searched for at every position.
match(cs) == \E i \in DOMAIN cs : MatchAt(cs, i, 3)

(***************************************************************************)
(* Connection context.                                                     *)
(***************************************************************************)
RootHost == <<"1", "2", "7", ".", "0", ".", "0", ".", "1", ":", "8", "0", "8", "0">>
RootToken == <<"t", "o", "k">>

\* A constructor that chooses https for every host.
SchemeSecure(clientHost) == "https"

\* The scheme the constructor chooses for a host.
Scheme(clientHost) ==
    IF \/ startsWith(clientHost, <<"l", "o", "c", "a", "l", "h", "o", "s", "t">>)
       \/ match(BeforeColon(clientHost))
    THEN "http" ELSE "https"

\* The url: Deno.env.has(...) ? `${scheme}://${host}/query?id=${Deno.env.get(...)}`
\* : `${scheme}://${host}/query`.
UrlWithoutId(clientHost, e) == Scheme(clientHost) \o "://" \o Join(clientHost) \o "/query"

Url(clientHost, e) ==
    IF e.t # "undefined"
    THEN Scheme(clientHost) \o "://" \o Join(clientHost) \o "/query?id=" \o Join(ToChars(e))
    ELSE Scheme(clientHost) \o "://" \o Join(clientHost) \o "/query"

\* new GraphQLClient(url, { headers: { Authorization, "X-FluentCI-Session-ID" } }),
\* built from the constructor's parameter sessionToken and from the
\* environment as it is when the constructor runs.
GraphQLClient(clientHost, sessionToken, e) ==
    [url |-> Url(clientHost, e),
     Authorization |-> "Basic " \o Join(btoa(ToChars(sessionToken) \o <<":">>)),
     session |-> IF Truthy(e) THEN Join(e.v) ELSE ""]

(***************************************************************************)
(* BaseClient: the constructor stores the array it is given, defaults the  *)
(* host and the token, and builds the transport client.                    *)
(***************************************************************************)
BaseClient(cls, qt, host, sessionToken, fields, origin, chain) ==
    LET clientHost == IF Truthy(host) THEN host.v ELSE RootHost
    IN  [cls |-> cls, qt |-> qt, host |-> clientHost,
         sessionToken |-> IF Truthy(sessionToken) THEN sessionToken.v ELSE <<>>,
         client |-> GraphQLClient(clientHost, sessionToken, env),
         fields |-> fields,
         born |-> env,          \* history: the environment at construction
         origin |-> origin,     \* history: how the object was obtained
         chain |-> chain]       \* history: the deferred calls that led to it

\* `host: this.clientHost, sessionToken: this.sessionToken`: what every
\* construction site of client.ts passes on to the object it creates.
InheritedNothing(o) == [host |-> Undef, sessionToken |-> Undef]

Inherited(o) ==
    [host |-> Chars(objs[o].host), sessionToken |-> Chars(objs[o].sessionToken)]

\* get queryTree(): the array object the chainable object holds.
queryTree(o) == objs[o].qt

\* The nodes of an array object, dereferenced.
Contents(a) == [i \in DOMAIN arrays[a] |-> nodes[arrays[a][i]]]
TreeOf(o) == Contents(objs[o].qt)

\* [...this._queryTree, node]: a new array object holding the parent's node
\* references followed by the new node's; the parent array is left alone.
SpreadPushed(arrs, qt, nids) ==
    Append([arrs EXCEPT ![qt] = @ \o nids], arrs[qt] \o nids)

SpreadFront(arrs, qt, nids) == Append(arrs, nids \o arrs[qt])

Spread(arrs, qt, nids) == Append(arrs, arrs[qt] \o nids)

\* { operation, args }: the value of a node object literal.
NewNode(operation, args) == [operation |-> operation, args |-> args]

\* Evaluating the literal allocates a new node object; the existing node
\* objects are left alone.
AllocatedOverLast(nds, node) ==
    IF nds = <<>> THEN <<node>> ELSE Append([nds EXCEPT ![Len(nds)] = node], node)

Allocated(nds, node) == Append(nds, node)

\* new GraphQLClient(url, { headers }) in the constructor configures the
\* transport of the new object; nothing is sent.
ConstructedEagerly(sent) == sent + 1

Constructed(sent) == sent

NDeferred == Cardinality({o \in DOMAIN objs : objs[o].origin.how = "deferred"})

\* A deferred method: `return new Cls({ queryTree: [...this._queryTree,
\* { operation, args }], host: this.clientHost, sessionToken })`.
Appended(o, cls, operation, args) ==
    /\ NDeferred < MaxDeferred
    /\ nodes' = Allocated(nodes, NewNode(operation, args))
    /\ arrays' = Spread(arrays, objs[o].qt, <<Len(nodes) + 1>>)
    /\ objs' = Append(objs,
                 BaseClient(cls, Len(arrays'),
                            Inherited(o).host, Inherited(o).sessionToken,
                            <<>>, [how |-> "deferred", parent |-> o],
                            Append(objs[o].chain,
                                   [operation |-> operation, args |-> args])))
    /\ nsent' = Constructed(nsent)

Derive(o, cls, operation, args) ==
    /\ Appended(o, cls, operation, args)
    /\ UNCHANGED <<calls, effects, env>>

container(o) ==
    /\ objs[o].cls = "Client"
    /\ Derive(o, "Container", "container", <<>>)

directory(o) ==
    /\ objs[o].cls = "Client"
    /\ Derive(o, "Directory", "directory", <<>>)

\* args: { args, ...opts }
withExec(o, opts) ==
    /\ objs[o].cls = "Container"
    /\ Derive(o, "Container", "withExec", <<Prop("args", Arr(<<Str("ls")>>))>> \o opts)

withMountedDirectory(o, source) ==
    /\ objs[o].cls = "Container"
    /\ objs[source].cls = "Directory"
    /\ Derive(o, "Container", "withMountedDirectory",
              <<Prop("path", Str("/mnt")), Prop("source", Obj(source))>>)

withDirectory(o, dir) ==
    /\ objs[o].cls = "Directory"
    /\ objs[dir].cls = "Directory"
    /\ Derive(o, "Directory", "withDirectory",
              <<Prop("path", Str("/src")), Prop("directory", Obj(dir))>>)

\* const metadata = { protocol: { is_enum: true } };
\* args: { port, ...opts, __metadata: metadata }
withExposedPort(o, port, opts) ==
    /\ objs[o].cls = "Container"
    /\ Derive(o, "Container", "withExposedPort",
              <<Prop("port", Num(port))>> \o opts
              \o <<Prop("__metadata", Meta({"protocol"}))>>)

typeDef(o) ==
    /\ objs[o].cls = "Client"
    /\ Derive(o, "TypeDef", "typeDef", <<>>)

\* args: { kind }
withKind(o, kind) ==
    /\ objs[o].cls = "TypeDef"
    /\ Derive(o, "TypeDef", "withKind", <<Prop("kind", Str(kind))>>)

\* operation: "function", args: { name, returnType }
function_(o, name, returnType) ==
    /\ objs[o].cls = "Client"
    /\ objs[returnType].cls = "TypeDef"
    /\ Derive(o, "Function_", "function",
              <<Prop("name", Str(name)), Prop("returnType", Obj(returnType))>>)

\* args: { function_ }: the shorthand property takes the parameter's name.
withFunction(o, fn) ==
    /\ objs[o].cls = "TypeDef"
    /\ objs[fn].cls = "Function_"
    /\ Derive(o, "TypeDef", "withFunction", <<Prop("function_", Obj(fn))>>)

\* operation: "module", no args.
module_(o) ==
    /\ objs[o].cls = "Client"
    /\ Derive(o, "Module_", "module", <<>>)

(***************************************************************************)
(* computeQuery (utils.ts): argument resolution, document compilation,     *)
(* transport and response unwrapping.                                      *)
(***************************************************************************)

\* One activation of computeQuery.  The array it was handed is
\* [...this._queryTree, ...own]: `shared` are the references to the node
\* objects of the chainable object's tree, `own` the nodes the caller made
\* for this call alone.  `ids` are the identifiers obtained so far for its
\* object-valued arguments, `slot` the argument it is resolving for the
\* activation below it, `client` the transport client it was handed.
Frame(shared, own, client) ==
    [shared |-> shared, own |-> own, client |-> client,
     ids |-> <<>>, pc |-> "args", slot |-> <<0, 0>>]

\* The nodes of the array the activation was handed.
FrameNodes(f) == [i \in DOMAIN f.shared |-> nodes[f.shared[i]]] \o f.own

\* The argument positions <<node index, property index>> of the array.
Slots(f) ==
    UNION {{<<i, j>> : j \in DOMAIN FrameNodes(f)[i].args} : i \in DOMAIN FrameNodes(f)}

ArgAt(f, s) == FrameNodes(f)[s[1]].args[s[2]]

HasId(f, s) == \E n \in DOMAIN f.ids : f.ids[n].slot = s
IdOf(f, s) == f.ids[CHOOSE n \in DOMAIN f.ids : f.ids[n].slot = s].id

\* Object-valued arguments that have no identifier yet.
UnresolvedOnce(f) ==
    IF f.ids # <<>> THEN {}
    ELSE {s \in Slots(f) : ArgAt(f, s).v.t = "object"}

Unresolved(f) == {s \in Slots(f) : ArgAt(f, s).v.t = "object" /\ ~HasId(f, s)}

\* The tree with every resolved object reference replaced by its identifier.
ResolvedTree(f) ==
    [i \in DOMAIN FrameNodes(f) |->
        LET n == FrameNodes(f)[i] IN
        [operation |-> n.operation,
         args |-> [j \in DOMAIN n.args |->
                     IF HasId(f, <<i, j>>)
                     THEN Prop(n.args[j].k, Str(IdOf(f, <<i, j>>)))
                     ELSE n.args[j]]]]

RECURSIVE RenderValue(_), RenderList(_)
\* A rendering that quotes every scalar.
RenderValueQuoted(val) ==
    CASE val.t = "string" -> "\"" \o val.v \o "\""
      [] val.t = "number" -> "\"" \o ToString(val.v) \o "\""
      [] val.t = "boolean" -> (IF val.v THEN "\"true\"" ELSE "\"false\"")
      [] val.t = "array" -> "[" \o RenderList(val.v) \o "]"
      [] OTHER -> "[object Object]"

RenderValue(val) ==
    CASE val.t = "string" -> "\"" \o val.v \o "\""
      [] val.t = "number" -> ToString(val.v)
      [] val.t = "boolean" -> (IF val.v THEN "true" ELSE "false")
      [] val.t = "array" -> "[" \o RenderList(val.v) \o "]"
      [] OTHER -> "[object Object]"
RenderList(s) ==
    IF s = <<>> THEN ""
    ELSE RenderValue(Head(s)) \o (IF Len(s) = 1 THEN "" ELSE ", " \o RenderList(Tail(s)))

\* Enum keys inferred from the values: every key whose value is one that
\* the metadata flags somewhere in the node.
EnumKeysByValue(args) ==
    LET m == Get(args, "__metadata")
        flagged == IF m.t = "metadata" THEN m.v ELSE {}
    IN  {args[i].k : i \in {i \in DOMAIN args :
            \E j \in DOMAIN args : args[j].k \in flagged /\ args[j].v = args[i].v}}

\* The keys the node's enum metadata flags.
EnumKeys(args) ==
    LET m == Get(args, "__metadata") IN IF m.t = "metadata" THEN m.v ELSE {}

\* The arguments that are rendered: not the metadata, not undefined ones.
Rendered(args) ==
    SelectSeq(args, LAMBDA p : p.k # "__metadata" /\ p.v.t # "undefined")

RECURSIVE RenderArgs(_, _)
RenderArgs(props, enums) ==
    IF props = <<>> THEN ""
    ELSE Head(props).k \o ": "
         \o (IF Head(props).k \in enums THEN Head(props).v.v ELSE RenderValue(Head(props).v))
         \o (IF Len(props) = 1 THEN "" ELSE ", " \o RenderArgs(Tail(props), enums))

RenderNode(n) ==
    IF Rendered(n.args) = <<>> THEN n.operation
    ELSE n.operation \o "(" \o RenderArgs(Rendered(n.args), EnumKeys(n.args)) \o ")"

\* One nested field selection, operation 1 outermost.
RECURSIVE buildQuery(_)
buildQuery(tree) ==
    IF Len(tree) = 1 THEN RenderNode(tree[1])
    ELSE RenderNode(tree[1]) \o " { " \o buildQuery(Tail(tree)) \o " }"

Operations(tree) == [i \in DOMAIN tree |-> tree[i].operation]

(***************************************************************************)
(* The engine, an external collaborator: what it answers to a document.    *)
(***************************************************************************)
EnvRecords ==
    << <<Prop("name", Str("PATH")), Prop("value", Str("/bin"))>>,
       <<Prop("name", Str("EMPTY")), Prop("value", Str(""))>> >>

PortRecords ==
    << <<Prop("description", Str("")), Prop("port", Num(0)),
         Prop("protocol", Str("TCP"))>> >>

\* The schema: the type of field op of type cls ("" when there is none).
FieldType(cls, op) ==
    CASE cls = "Client" /\ op = "container" -> "Container"
      [] cls = "Client" /\ op = "directory" -> "Directory"
      [] cls = "Container"
         /\ op \in {"withExec", "withMountedDirectory", "withExposedPort"} -> "Container"
      [] cls = "Container" /\ op \in {"id", "sync"} -> "ID"
      [] cls = "Container" /\ op = "stdout" -> "String"
      [] cls = "Container" /\ op = "export" -> "Boolean"
      [] cls = "Container" /\ op = "envVariables" -> "[EnvVariable]"
      [] cls = "Container" /\ op = "exposedPorts" -> "[Port]"
      [] cls = "Directory" /\ op = "withDirectory" -> "Directory"
      [] cls = "Directory" /\ op = "id" -> "ID"
      [] cls = "[EnvVariable]" /\ op = "name value" -> "EnvVariable records"
      [] cls = "[Port]" /\ op = "description port protocol" -> "Port records"
      [] OTHER -> ""

RECURSIVE TypeAt(_, _)
TypeAt(ops, cls) ==
    IF ops = <<>> THEN cls ELSE TypeAt(Tail(ops), FieldType(cls, Head(ops)))

\* The value the engine returns for a document it accepts.
EngineValue(type, doc) ==
    CASE type = "ID" -> Str("id:" \o doc)
      [] type = "String" -> Str("hello")
      [] type = "Boolean" -> Bool(TRUE)
      [] type = "EnvVariable records" -> Arr(EnvRecords)
      [] type = "Port records" -> Arr(PortRecords)

Leaf == {"ID", "String", "Boolean", "EnvVariable records", "Port records"}

\* What comes back for a request: nothing but the cause of a transport
\* failure, or a body with an error list and the data.
Reply(cause, errors, data) == [cause |-> cause, errors |-> errors, data |-> data]

Causes == {"connection refused", "timeout"}

Record(props) == [t |-> "record", v |-> props]

\* The sub-selections of the array fields: rendered innermost in the
\* document, they select inside each record and are not a key of the body.
SubSelections == {"name value", "description port protocol"}

\* The keys the body of the response to a tree is nested by.
Path(tree) ==
    IF tree # <<>> /\ tree[Len(tree)].operation \in SubSelections
    THEN Operations(SubSeq(tree, 1, Len(tree) - 1))
    ELSE Operations(tree)

\* The body nested in the shape of the document: outer key first.
RECURSIVE Wrap(_, _)
Wrap(path, val) ==
    IF path = <<>> THEN val
    ELSE Record(<<Prop(Head(path), Wrap(Tail(path), val))>>)

\* A walk that stops below the outermost key.
WalkOuter(body, path) ==
    IF path = <<>> THEN [found |-> TRUE, value |-> body]
    ELSE IF body.t = "record" /\ \E j \in DOMAIN body.v : body.v[j].k = Head(path)
         THEN [found |-> TRUE, value |-> Get(body.v, Head(path))]
         ELSE [found |-> FALSE, value |-> Undef]

\* Step 4: walk down the body through each operation name in order.
RECURSIVE Walk(_, _)
Walk(body, path) ==
    IF path = <<>> THEN [found |-> TRUE, value |-> body]
    ELSE IF body.t = "record" /\ \E j \in DOMAIN body.v : body.v[j].k = Head(path)
         THEN Walk(Get(body.v, Head(path)), Tail(path))
         ELSE [found |-> FALSE, value |-> Undef]

\* The outcome of a resolution whose request got this reply: the Resolved
\* Value, or one of the three kinds of failure with what it carries.
UnwrapDataFirst(reply, path) ==
    LET w == IF reply.cause = "" THEN Walk(reply.data, path)
             ELSE [found |-> FALSE, value |-> Undef]
    IN  IF w.found
        THEN [kind |-> "", detail |-> <<>>, value |-> w.value]
        ELSE [kind |-> "ProtocolMismatchError", detail |-> <<>>, value |-> Undef]

Unwrap(reply, path) ==
    IF reply.cause # ""
    THEN [kind |-> "TransportError", detail |-> <<reply.cause>>, value |-> Undef]
    ELSE IF reply.errors # <<>>
    THEN [kind |-> "RemoteOperationError",
          detail |-> <<reply.errors[1].message, reply.errors[1].operation>>,
          value |-> Undef]
    ELSE LET w == Walk(reply.data, path)
         IN  IF w.found
             THEN [kind |-> "", detail |-> <<>>, value |-> w.value]
             ELSE [kind |-> "ProtocolMismatchError", detail |-> <<>>, value |-> Undef]

\* The first field of a document that the schema does not have (0: none).
RECURSIVE Unknown(_, _, _)
Unknown(ops, cls, i) ==
    IF ops = <<>> THEN 0
    ELSE IF FieldType(cls, Head(ops)) = "" THEN i
    ELSE Unknown(Tail(ops), FieldType(cls, Head(ops)), i + 1)

\* The error list of the engine: a document that does not fit the schema is
\* rejected at its first unknown field; a process started for stdout may
\* exit with a failure.
EngineErrors(tree) ==
    LET ops == Operations(tree)
        u == Unknown(ops, "Client", 1)
    IN  IF u # 0
        THEN {<<[message |-> "Cannot query field", operation |-> ops[u]],
                [message |-> "Validation failed", operation |-> ops[1]]>>}
        ELSE IF ops[Len(ops)] = "stdout"
        THEN {<<[message |-> "exit code: 1", operation |-> "stdout"]>>}
        ELSE {}

(***************************************************************************)
(* Terminal methods.                                                       *)
(***************************************************************************)
\* The objects a tree refers to in its arguments, and those they refer to.
Refs(tree) ==
    UNION {{tree[i].args[j].v.v : j \in {j \in DOMAIN tree[i].args :
                                           tree[i].args[j].v.t = "object"}} :
           i \in DOMAIN tree}

RECURSIVE Reach(_, _)
Reach(os, n) ==
    IF n = 0 THEN os
    ELSE Reach(os \cup UNION {Refs(TreeOf(o)) : o \in os}, n - 1)

Call(o, method, own, status, stack, result) ==
    [obj |-> o, method |-> method, status |-> status, stack |-> stack,
     result |-> result, error |-> "",
     detail |-> <<>>,       \* what the error carries
     reply |-> Reply("", <<>>, Undef),
                            \* history: the reply that made the call fail
     own |-> own,           \* history: the nodes the method made for the call
     reqs |-> <<>>,         \* history: the requests sent for the call, in order
     nres |-> 0,            \* history: argument identifiers obtained
     partial |-> FALSE,     \* history: aborted with some, not all, arguments resolved
     conc |-> \E c \in DOMAIN calls : calls[c].status = "running",
                            \* history: was in flight together with another call
     before |->             \* history: the trees the call starts from
        [p \in Reach({o}, Len(objs)) |-> TreeOf(p)]]

\* this._x: the value the constructor stored for the accessor.
StoredOrEarlier(o, method, field) ==
    LET earlier == {c \in DOMAIN calls :
                      /\ calls[c].obj = o
                      /\ calls[c].method = method
                      /\ calls[c].status = "done"}
    IN  IF earlier # {} THEN calls[CHOOSE c \in earlier : TRUE].result
        ELSE Get(objs[o].fields, field)

Stored(o, method, field) == Get(objs[o].fields, field)

\* `if (this._x) return this._x;` followed by
\* `await computeQuery([...this._queryTree, ...newNodes], this.client)`.
\* field is "" for the methods that have no such shortcut.
Invoke(o, method, field, newNodes) ==
    /\ Len(calls) < MaxCalls
    /\ IF field # "" /\ Truthy(Stored(o, method, field))
       THEN calls' = Append(calls,
                       Call(o, method, newNodes, "done", <<>>, Stored(o, method, field)))
       ELSE calls' = Append([c \in DOMAIN calls |->
                               IF calls[c].status = "running"
                               THEN [calls[c] EXCEPT !.conc = TRUE] ELSE calls[c]],
                       Call(o, method, newNodes, "running",
                            <<Frame(arrays[objs[o].qt], newNodes, objs[o].client)>>,
                            Undef))
    /\ UNCHANGED <<nodes, arrays, objs, nsent, effects, env>>

id(o) ==
    /\ objs[o].cls = "Directory"
    /\ Invoke(o, "id", "_id", <<NewNode("id", <<>>)>>)

stdout(o) ==
    /\ objs[o].cls = "Container"
    /\ Invoke(o, "stdout", "_stdout", <<NewNode("stdout", <<>>)>>)

export(o) ==
    /\ objs[o].cls = "Container"
    /\ Invoke(o, "export", "_export",
              <<NewNode("export",
                  <<Prop("path", Str("./out")),
                    Prop("__metadata", Meta({"forcedCompression", "mediaTypes"}))>>)>>)

sync(o) ==
    /\ objs[o].cls = "Container"
    /\ Invoke(o, "sync", "", <<NewNode("sync", <<>>)>>)

envVariables(o) ==
    /\ objs[o].cls = "Container"
    /\ Invoke(o, "envVariables", "",
              <<NewNode("envVariables", <<>>), NewNode("name value", <<>>)>>)

exposedPorts(o) ==
    /\ objs[o].cls = "Container"
    /\ Invoke(o, "exposedPorts", "",
              <<NewNode("exposedPorts", <<>>),
                NewNode("description port protocol", <<>>)>>)

name(o) ==
    /\ objs[o].cls = "EnvVariable"
    /\ Invoke(o, "name", "_name", <<NewNode("name", <<>>)>>)

value(o) ==
    /\ objs[o].cls = "EnvVariable"
    /\ Invoke(o, "value", "_value", <<NewNode("value", <<>>)>>)

port(o) ==
    /\ objs[o].cls = "Port"
    /\ Invoke(o, "port", "_port", <<NewNode("port", <<>>)>>)

\* The functions the caller passes to with(): each calls one deferred
\* method on its parameter and returns the result.
Functions == {"exec", "expose"}

\* The node the method that f calls appends.
NodeOf(f) ==
    CASE f = "exec" -> NewNode("withExec", <<Prop("args", Arr(<<Str("ls")>>))>>)
      [] f = "expose" ->
           NewNode("withExposedPort",
                   <<Prop("port", Num(8080)), Prop("__metadata", Meta({"protocol"}))>>)

\* with(arg) { return arg(this); } with a method of its own that appends a
\* node before the function runs.
withNode(o, f) ==
    /\ objs[o].cls = "Container"
    /\ Len(calls) < MaxCalls
    /\ Appended(o, "Container", "with", <<>>)
    /\ calls' = Append(calls, Call(o, "with", <<NodeOf(f)>>, "done", <<>>,
                                   Obj(Len(objs) + 1)))
    /\ UNCHANGED <<effects, env>>

\* with(arg) { return arg(this); }: the function runs its deferred method
\* on this object, and what it returns is returned.  The invocation is
\* recorded with the node the function made and the object returned.
with(o, f) ==
    /\ objs[o].cls = "Container"
    /\ Len(calls) < MaxCalls
    /\ Appended(o, "Container", NodeOf(f).operation, NodeOf(f).args)
    /\ calls' = Append(calls, Call(o, "with", <<NodeOf(f)>>, "done", <<>>,
                                   Obj(Len(objs) + 1)))
    /\ UNCHANGED <<effects, env>>

\* A lift that hands the record's values to the constructor in the reverse
\* of the order of its parameters.
LiftedSwapped(o, cls, method, recs, keys) ==
    [i \in DOMAIN recs |->
        BaseClient(cls, queryTree(o),
                   Inherited(o).host, Inherited(o).sessionToken,
                   [j \in DOMAIN keys |->
                      Prop("_" \o keys[j], Get(recs[i], keys[Len(keys) + 1 - j]))],
                   [how |-> "lifted", parent |-> o, field |-> method, index |-> i],
                   objs[o].chain)]

\* response.map((r) => new Cls({ queryTree: this.queryTree, host, sessionToken },
\* r.f1, r.f2, ...)): the constructor stores the values as _f1, _f2, ...
Lifted(o, cls, method, recs, keys) ==
    [i \in DOMAIN recs |->
        BaseClient(cls, queryTree(o),
                   Inherited(o).host, Inherited(o).sessionToken,
                   [j \in DOMAIN keys |-> Prop("_" \o keys[j], Get(recs[i], keys[j]))],
                   [how |-> "lifted", parent |-> o, field |-> method, index |-> i],
                   objs[o].chain)]

\* A sync() that hands back the value of the response in place of `this`.
ContinueWithResponse(c, response) ==
    /\ objs' = objs
    /\ calls' = [calls EXCEPT ![c].status = "done", ![c].stack = <<>>,
                              ![c].result = response]

\* What the terminal method does with the response of computeQuery.
Continue(c, response) ==
    LET o == calls[c].obj
        m == calls[c].method
        made == CASE m = "envVariables" ->
                       Lifted(o, "EnvVariable", m, response.v, <<"name", "value">>)
                  [] m = "exposedPorts" ->
                       Lifted(o, "Port", m, response.v,
                              <<"description", "port", "protocol">>)
                  [] OTHER -> <<>>
        result == CASE m = "sync" -> Obj(o)
                    [] m \in {"envVariables", "exposedPorts"} ->
                         Arr([i \in DOMAIN made |-> Obj(Len(objs) + i)])
                    [] OTHER -> response
    IN  /\ objs' = objs \o made
        /\ calls' = [calls EXCEPT ![c].status = "done", ![c].stack = <<>>,
                                  ![c].result = result]

(***************************************************************************)
(* The steps of computeQuery.                                              *)
(***************************************************************************)
Running(c) == calls[c].status = "running"
Top(c) == calls[c].stack[Len(calls[c].stack)]

\* Step 1: an object-valued argument is found; its identifier is requested
\* by resolving [...value._queryTree, { operation: "id" }].
ResolveArgument(c) ==
    /\ Running(c)
    /\ Top(c).pc = "args"
    /\ \E s \in Unresolved(Top(c)) :
         LET ref == ArgAt(Top(c), s).v.v IN
         calls' = [calls EXCEPT ![c].stack =
                     Append(@, [Frame(arrays[objs[ref].qt], <<NewNode("id", <<>>)>>,
                                       objs[ref].client)
                                  EXCEPT !.slot = s])]
    /\ UNCHANGED <<nodes, arrays, objs, nsent, effects, env>>

\* What resolving the argument at property j of node nid does to the node
\* heap: nothing, the identifier is kept with the activation and the node
\* keeps the reference.
SubstitutedInPlace(nds, nid, j, ident) ==
    [nds EXCEPT ![nid].args[j].v = Str(ident)]

Substituted(nds, nid, j, ident) == nds

\* Steps 2 and 3: every argument has its identifier; the document is
\* compiled and one request is sent.
Send(c) ==
    /\ Running(c)
    /\ Top(c).pc = "args"
    /\ Unresolved(Top(c)) = {}
    /\ LET tree == ResolvedTree(Top(c))
           depth == Len(calls[c].stack)
       IN  calls' = [calls EXCEPT
                 ![c].stack[depth].pc = "sent",
                 ![c].reqs = Append(@, [depth |-> depth, slot |-> Top(c).slot,
                                        objslots |-> {s \in Slots(Top(c)) :
                                            ArgAt(Top(c), s).v.t = "object"},
                                        tree |-> tree, doc |-> buildQuery(tree),
                                        client |-> Top(c).client])]
    /\ nsent' = nsent + 1
    /\ UNCHANGED <<nodes, arrays, objs, effects, env>>

\* The document that was sent and the type of its innermost field.
SentDoc(c) == calls[c].reqs[Len(calls[c].reqs)].doc
SentTree(c) == calls[c].reqs[Len(calls[c].reqs)].tree
SentType(c) == TypeAt(Operations(SentTree(c)), "Client")

\* The reply of an engine that executes the document, and the Resolved
\* Value found in it.
Answer(c) ==
    Reply("", <<>>, Wrap(Path(SentTree(c)), EngineValue(SentType(c), SentDoc(c))))

Resolved(c) == Unwrap(Answer(c), Path(SentTree(c))).value

\* Step 4 for an argument: the identifier comes back and takes the place of
\* the reference in the document of the waiting activation.
ReturnId(c) ==
    /\ Running(c)
    /\ Len(calls[c].stack) > 1
    /\ Top(c).pc = "sent"
    /\ SentType(c) \in Leaf
    /\ LET depth == Len(calls[c].stack)
           s == Top(c).slot
           ident == Resolved(c).v
           below == calls[c].stack[depth - 1]
       IN  /\ calls' = [calls EXCEPT
                 ![c].stack = Append(SubSeq(@, 1, depth - 2),
                                [below EXCEPT !.ids = Append(@, [slot |-> s, id |-> ident])]),
                 ![c].nres = @ + 1]
           /\ nodes' = IF s[1] <= Len(below.shared)
                       THEN Substituted(nodes, below.shared[s[1]], s[2], ident)
                       ELSE nodes
    /\ UNCHANGED <<arrays, objs, nsent, effects, env>>

\* Step 4 for the terminal call: the value comes back to the method.
Complete(c) ==
    /\ Running(c)
    /\ Len(calls[c].stack) = 1
    /\ Top(c).pc = "sent"
    /\ SentType(c) \in Leaf
    /\ Continue(c, Resolved(c))
    /\ effects' = effects + (IF calls[c].method = "export" THEN 1 ELSE 0)
    /\ UNCHANGED <<nodes, arrays, nsent, env>>

\* The promise of computeQuery rejects inside the terminal method.  No
\* method has a try/catch: the rejection leaves the method at the await,
\* the statements after it (storing, lifting, `return this`) do not run,
\* and the caller receives the error.
AbortSwallowed(c, error) ==
    [calls EXCEPT ![c].status = "done", ![c].error = error, ![c].stack = <<>>,
                  ![c].result = IF calls[c].method = "sync"
                                THEN Obj(calls[c].obj) ELSE Arr(<<>>)]

Abort(c, error) ==
    [calls EXCEPT ![c].status = "failed", ![c].error = error, ![c].stack = <<>>,
                  ![c].partial = calls[c].nres > 0 /\ Len(calls[c].stack) > 1]

\* The resolution whose request got this reply fails: the error of the
\* kind that Unwrap finds goes to the caller of the terminal method.
Fail(c, reply) ==
    LET out == Unwrap(reply, Path(SentTree(c)))
    IN  [Abort(c, out.kind) EXCEPT ![c].detail = out.detail, ![c].reply = reply]

\* The engine answers with an error list.
RemoteError(c) ==
    /\ Running(c)
    /\ Top(c).pc = "sent"
    /\ \E errors \in EngineErrors(SentTree(c)) :
         calls' = Fail(c, Reply("", errors, Undef))
    /\ UNCHANGED <<nodes, arrays, objs, nsent, effects, env>>

\* The request gets no response, and the resolver sends it once more
\* before giving up.
TransportFailureRetried(c, cause) ==
    /\ Running(c)
    /\ Top(c).pc = "sent"
    /\ IF Len(calls[c].reqs) <= calls[c].nres + 1
       THEN calls' = [calls EXCEPT ![c].stack[Len(calls[c].stack)].pc = "args"]
       ELSE calls' = Fail(c, Reply(cause, <<>>, Undef))
    /\ UNCHANGED <<nodes, arrays, objs, nsent, effects, env>>

\* The request gets no response.
TransportFailure(c, cause) ==
    /\ Running(c)
    /\ Top(c).pc = "sent"
    /\ calls' = Fail(c, Reply(cause, <<>>, Undef))
    /\ UNCHANGED <<nodes, arrays, objs, nsent, effects, env>>

\* The engine executes the document, and its body lacks the k-th key of
\* the path: the schema of the engine has drifted from the client's.
ProtocolMismatch(c, k) ==
    /\ Running(c)
    /\ Top(c).pc = "sent"
    /\ SentType(c) \in Leaf
    /\ k \in 1..Len(Path(SentTree(c)))
    /\ calls' = Fail(c, Reply("", <<>>,
                     Wrap(SubSeq(Path(SentTree(c)), 1, k - 1), Record(<<>>))))
    /\ UNCHANGED <<nodes, arrays, objs, nsent, effects, env>>

\* The caller cancels the outstanding network call.
Cancel(c) ==
    /\ Running(c)
    /\ Top(c).pc = "sent"
    /\ calls' = Abort(c, "Cancelled")
    /\ UNCHANGED <<nodes, arrays, objs, nsent, effects, env>>

Init ==
    /\ nodes = <<>>
    /\ arrays = << <<>> >>
    /\ env = Undef
    /\ objs = <<BaseClient("Client", 1, Undef, Chars(RootToken), <<>>,
                           [how |-> "root", parent |-> 0], <<>>)>>
    /\ calls = <<>>
    /\ nsent = 0
    /\ effects = 0

Next ==
    \/ \E o \in DOMAIN objs : container(o)
    \/ \E o \in DOMAIN objs : directory(o)
    \/ \E o \in DOMAIN objs : withExec(o, <<>>)
    \/ \E o, s \in DOMAIN objs : withMountedDirectory(o, s)
    \/ \E o, d \in DOMAIN objs : withDirectory(o, d)
    \/ \E o \in DOMAIN objs : id(o)
    \/ \E o \in DOMAIN objs : stdout(o)
    \/ \E o \in DOMAIN objs : export(o)
    \/ \E o \in DOMAIN objs : sync(o)
    \/ \E o \in DOMAIN objs : envVariables(o)
    \/ \E o \in DOMAIN objs : exposedPorts(o)
    \/ \E o \in DOMAIN objs : name(o)
    \/ \E o \in DOMAIN objs : value(o)
    \/ \E o \in DOMAIN objs : port(o)
    \/ \E c \in DOMAIN calls : ResolveArgument(c)
    \/ \E c \in DOMAIN calls : Send(c)
    \/ \E c \in DOMAIN calls : ReturnId(c)
    \/ \E c \in DOMAIN calls : Complete(c)
    \/ \E c \in DOMAIN calls : RemoteError(c)
    \/ \E c \in DOMAIN calls : TransportFailure(c, "connection refused")
    \/ \E c \in DOMAIN calls : ProtocolMismatch(c, Len(Path(SentTree(c))))
    \/ \E c \in DOMAIN calls : Cancel(c)

Spec == Init /\ [][Next]_vars

(***************************************************************************)
(* A session: the caller constructs the root client itself, for a host and *)
(* a token of its choice, while the process environment changes under it;  *)
(* the replies of the transport are drawn in full.                         *)
(***************************************************************************)
EnvValues == {Undef, Chars(<<>>), Chars(<<"s", "1">>)}

HostInputs ==
    {Undef,
     Chars(<<>>),
     Chars(<<"l", "o", "c", "a", "l", "h", "o", "s", "t", ":", "8", "0">>),
     Chars(<<"1", "0", ".", "0", ".", "0", ".", "1", ":", "8", "0">>),
     Chars(<<"e", "x", ".", "i", "o", ":", "8", "0">>),
     Chars(<<"l", "o", "c", "a", "l", "h", "o", "s", "t", "s", ".", "i", "o">>),
     Chars(<<"a", "1", ".", "2", ".", "3", ".", "4", ".", "i", "o">>)}

TokenInputs == {Undef, Chars(<<>>), Chars(RootToken)}

\* What the caller passes for queryTree: nothing, or an array of node
\* literals.
TreeInputs == {Undef, Arr(<<NewNode("", <<>>)>>)}

\* The ClientConfig values the caller constructs the root with.
Configs ==
    {[queryTree |-> Undef, host |-> h, sessionToken |-> Chars(RootToken)] :
        h \in HostInputs}
    \cup {[queryTree |-> Undef, host |-> Undef, sessionToken |-> t] :
        t \in TokenInputs}
    \cup {[queryTree |-> t, host |-> Undef, sessionToken |-> Chars(RootToken)] :
        t \in TreeInputs}

\* new Client(config): `this._queryTree = queryTree || []`, the array the
\* caller passed (its node literals are allocated by the caller) or a new
\* empty one.
NewClient(config) ==
    /\ objs = <<>>
    /\ nodes' = IF Truthy(config.queryTree) THEN nodes \o config.queryTree.v ELSE nodes
    /\ arrays' = Append(arrays,
                   IF Truthy(config.queryTree)
                   THEN [i \in DOMAIN config.queryTree.v |-> Len(nodes) + i]
                   ELSE <<>>)
    /\ objs' = <<BaseClient("Client", Len(arrays'), config.host, config.sessionToken,
                            <<>>,
                            [how |-> "root", parent |-> 0,
                             config |-> config],   \* history: what was passed
                            <<>>)>>
    /\ nsent' = Constructed(nsent)
    /\ UNCHANGED <<calls, effects, env>>

\* The process environment changes: Deno.env.set / Deno.env.delete, by the
\* caller or by any other code of the process.
SetEnv(e) ==
    /\ e # env
    /\ env' = e
    /\ UNCHANGED <<nodes, arrays, objs, calls, nsent, effects>>

InitSession ==
    /\ nodes = <<>>
    /\ arrays = <<>>
    /\ objs = <<>>
    /\ calls = <<>>
    /\ nsent = 0
    /\ effects = 0
    /\ env \in EnvValues

NextSession ==
    \/ \E config \in Configs : NewClient(config)
    \/ \E e \in EnvValues : SetEnv(e)
    \/ \E o \in DOMAIN objs : NDeferred < MaxChain /\ container(o)
    \/ \E o \in DOMAIN objs : NDeferred < MaxChain /\ withExec(o, <<>>)
    \/ \E o \in DOMAIN objs : Len(calls) < MaxSessionCalls /\ stdout(o)
    \/ \E o \in DOMAIN objs : Len(calls) < MaxSessionCalls /\ sync(o)
    \/ \E o \in DOMAIN objs : Len(calls) < MaxSessionCalls /\ envVariables(o)
    \/ \E c \in DOMAIN calls : Send(c)
    \/ \E c \in DOMAIN calls : Complete(c)
    \/ \E c \in DOMAIN calls : RemoteError(c)
    \/ \E c \in DOMAIN calls, cause \in Causes : TransportFailure(c, cause)
    \/ \E c \in DOMAIN calls, k \in 1..(MaxChain + 1) : ProtocolMismatch(c, k)

SpecSession == InitSession /\ [][NextSession]_vars

(***************************************************************************)
(* The surface of the generated API: methods with enum-typed parameters,   *)
(* methods and parameters named with a trailing underscore, options        *)
(* records, with(), under the root of Init.                                *)
(***************************************************************************)
ExecOpts == {<<>>, <<Prop("skipEntrypoint", Bool(TRUE))>>}

PortOpts ==
    {<<>>, <<Prop("protocol", Str("UDP")), Prop("description", Str("UDP"))>>}

NextSurface ==
    \/ \E o \in DOMAIN objs : container(o)
    \/ \E o \in DOMAIN objs, opts \in ExecOpts : withExec(o, opts)
    \/ \E o \in DOMAIN objs, opts \in PortOpts : withExposedPort(o, 8080, opts)
    \/ \E o \in DOMAIN objs : typeDef(o)
    \/ \E o \in DOMAIN objs : withKind(o, "ObjectKind")
    \/ \E o, t \in DOMAIN objs : function_(o, "f", t)
    \/ \E o, fn \in DOMAIN objs : withFunction(o, fn)
    \/ \E o \in DOMAIN objs : module_(o)
    \/ \E o \in DOMAIN objs, f \in Functions : with(o, f)
    \/ \E o \in DOMAIN objs : sync(o)
    \/ \E c \in DOMAIN calls : Send(c)
    \/ \E c \in DOMAIN calls : Complete(c)

SpecSurface == Init /\ [][NextSurface]_vars

(***************************************************************************)
(* Properties.                                                             *)
(***************************************************************************)
Deferred == {o \in DOMAIN objs : objs[o].origin.how = "deferred"}
LiftedObjs == {o \in DOMAIN objs : objs[o].origin.how = "lifted"}

\* C1: a deferred call on A that returns B leaves the tree of A (and of every
\* other existing object) with the same nodes in the same order, and the tree
\* of B is the tree of A followed by exactly one node, a new one.
C1_AppendLeavesParentTree ==
    [][ /\ \A o \in DOMAIN objs : (TreeOf(o))' = TreeOf(o)
        /\ \A b \in DOMAIN objs', a \in DOMAIN objs :
             (/\ b \notin DOMAIN objs
              /\ objs'[b].origin.how = "deferred"
              /\ objs'[b].origin.parent = a) =>
                /\ (TreeOf(b))' = Append(TreeOf(a), nodes'[Len(nodes')])
                /\ (TreeOf(b))' = Append((TreeOf(a))', nodes'[Len(nodes')])
                /\ arrays'[objs'[b].qt][Len(arrays'[objs'[b].qt])] \notin DOMAIN nodes
      ]_vars

\* C1 witness: an object A that is itself derived has produced two objects.
C1_Witness ==
    \E a, b1, b2 \in Deferred :
        /\ b1 # b2
        /\ objs[b1].origin.parent = a
        /\ objs[b2].origin.parent = a
        /\ Len(TreeOf(b1)) = Len(TreeOf(a)) + 1

\* C2: the object reached by a chain of n deferred calls from the root has a
\* tree of length n whose i-th node has the operation name of the i-th call
\* and, under each parameter name of that call, the value that was passed.
C2_TreeIsCallChain ==
    \A o \in DOMAIN objs :
        objs[o].origin.how \in {"root", "deferred"} =>
            /\ Len(TreeOf(o)) = Len(objs[o].chain)
            /\ \A i \in DOMAIN objs[o].chain :
                 /\ TreeOf(o)[i].operation = objs[o].chain[i].operation
                 /\ \A j \in DOMAIN objs[o].chain[i].args :
                      Get(TreeOf(o)[i].args, objs[o].chain[i].args[j].k)
                          = objs[o].chain[i].args[j].v

\* C2 witness: a chain of three calls with different operations in it.
C2_Witness ==
    \E o \in Deferred :
        /\ Len(objs[o].chain) = 3
        /\ Len(TreeOf(o)) = 3
        /\ TreeOf(o)[1].operation # TreeOf(o)[2].operation
        /\ TreeOf(o)[3].args # <<>>

\* C3: as long as no terminal method has been invoked, no request has been
\* handed to the transport.
C3_NoRequestBeforeTerminal == calls = <<>> => nsent = 0

\* C3 witness: deferred calls have been made, no terminal one.
C3_Witness == Cardinality(Deferred) = MaxDeferred /\ calls = <<>> /\ nsent = 0

\* The requests of call c that carry its own document, not an argument's.
OwnRequests(c) == {n \in DOMAIN calls[c].reqs : calls[c].reqs[n].depth = 1}

\* The value pre-populated on the object of call c for the accessor called.
Populated(c) == Get(objs[calls[c].obj].fields, "_" \o calls[c].method)

\* C4 as stated: every terminal call that returned has sent one request of
\* its own, whatever object it was made on.
C4_EveryTerminalCallSends ==
    \A c \in DOMAIN calls :
        calls[c].status = "done" => Cardinality(OwnRequests(c)) = 1

\* C4 amended: every terminal call on an object that holds no pre-populated
\* value for the accessor called sends one request of its own (none is
\* answered from an earlier invocation), and the engine has executed export
\* once per export call that returned.
C4_UnpopulatedTerminalCallSends ==
    /\ \A c \in DOMAIN calls :
         Populated(c).t = "undefined" =>
            /\ calls[c].status = "done" => Cardinality(OwnRequests(c)) = 1
            /\ Cardinality(OwnRequests(c)) <= 1
    /\ effects = Cardinality({c \in DOMAIN calls :
                                calls[c].method = "export" /\ calls[c].status = "done"})

\* C4 witness: export was called twice on one object and executed twice.
C4_Witness ==
    \E c1, c2 \in DOMAIN calls :
        /\ c1 # c2
        /\ calls[c1].obj = calls[c2].obj
        /\ calls[c1].method = "export" /\ calls[c2].method = "export"
        /\ calls[c1].status = "done" /\ calls[c2].status = "done"
        /\ effects = 2
        /\ nsent >= 2

\* The last request before the n-th of call c that is not deeper than it.
Previous(c, n) ==
    LET earlier == {m \in 1..(n - 1) :
                      calls[c].reqs[m].depth <= calls[c].reqs[n].depth}
    IN  IF earlier = {} THEN 0 ELSE CHOOSE m \in earlier : \A k \in earlier : k <= m

\* C5: every document sent holds literal values only, and for each of its
\* arguments that was an object reference the request for that object's
\* identifier was sent (and answered) earlier in the same resolution, the
\* identifier it returned being the value in the document; applied to the
\* identifier requests themselves this orders C before B before the outer one.
C5_ArgumentsResolvedFirst ==
    \A c \in DOMAIN calls : \A n \in DOMAIN calls[c].reqs :
        LET r == calls[c].reqs[n] IN
        /\ \A i \in DOMAIN r.tree : \A j \in DOMAIN r.tree[i].args :
             r.tree[i].args[j].v.t # "object"
        /\ \A s \in r.objslots :
             \E m \in (Previous(c, n) + 1)..(n - 1) :
                /\ calls[c].reqs[m].depth = r.depth + 1
                /\ calls[c].reqs[m].slot = s
                /\ r.tree[s[1]].args[s[2]].v = EngineValue("ID", calls[c].reqs[m].doc)

\* C5 witness: a call returned whose argument B had itself an argument C;
\* the requests for C, for B and the outer one were sent in this order.
C5_Witness ==
    \E c \in DOMAIN calls :
        /\ calls[c].status = "done"
        /\ \E n1, n2, n3 \in DOMAIN calls[c].reqs :
             /\ n1 < n2 /\ n2 < n3
             /\ calls[c].reqs[n1].depth = 3
             /\ calls[c].reqs[n2].depth = 2
             /\ calls[c].reqs[n2].objslots # {}
             /\ calls[c].reqs[n3].depth = 1

Aborted(c) ==
    /\ calls[c].status = "failed"
    /\ calls[c].error \in {"TransportError", "Cancelled"}

\* C6: when a call was aborted by a transport failure or a cancellation with
\* some but not all of its object arguments resolved, the tree of its object
\* and the trees of the objects its arguments refer to are what they were
\* when the call was made.
C6_AbortLeavesTrees ==
    \A c \in DOMAIN calls :
        (Aborted(c) /\ calls[c].partial) =>
            \A p \in DOMAIN calls[c].before : TreeOf(p) = calls[c].before[p]

\* C6 witness: a transport failure after an argument had been resolved and
\* while another was outstanding.
C6_Witness ==
    \E c \in DOMAIN calls :
        /\ calls[c].status = "failed"
        /\ calls[c].error = "TransportError"
        /\ calls[c].partial
        /\ calls[c].nres >= 1

\* C7: no step changes the operation name or an argument value of a node
\* that exists.
C7_NodesImmutable ==
    [][\A n \in DOMAIN nodes : n \in DOMAIN nodes' /\ nodes'[n] = nodes[n]]_vars

\* C7 witness: a node holding an object reference is shared by two trees,
\* after a call that resolved arguments returned and another call failed.
C7_Witness ==
    /\ \E c1, c2 \in DOMAIN calls :
         /\ calls[c1].status = "done" /\ calls[c1].nres >= 1
         /\ calls[c2].status = "failed"
    /\ \E a, b \in DOMAIN objs, n \in DOMAIN nodes :
         /\ objs[a].qt # objs[b].qt
         /\ \E i \in DOMAIN arrays[objs[a].qt] : arrays[objs[a].qt][i] = n
         /\ \E i \in DOMAIN arrays[objs[b].qt] : arrays[objs[b].qt][i] = n
         /\ \E j \in DOMAIN nodes[n].args : nodes[n].args[j].v.t = "object"

\* The document tree a call sends when it runs alone: every object
\* reference replaced by the identifier the engine gives for that object's
\* tree, itself compiled the same way.
RECURSIVE AloneTree(_, _)
AloneTree(tree, before) ==
    [i \in DOMAIN tree |->
        [operation |-> tree[i].operation,
         args |-> [j \in DOMAIN tree[i].args |->
            IF tree[i].args[j].v.t = "object"
            THEN Prop(tree[i].args[j].k,
                      EngineValue("ID",
                          buildQuery(AloneTree(
                              Append(before[tree[i].args[j].v.v], NewNode("id", <<>>)),
                              before))))
            ELSE tree[i].args[j]]]]

Alone(c) == AloneTree(calls[c].before[calls[c].obj] \o calls[c].own, calls[c].before)

\* C8: whatever other calls are in flight, a call sends the document it
\* would send alone, returns the value the engine gives for that document
\* (sync returns the object), and every activation of it sees the nodes as
\* they were when the call was made.
C8_ConcurrentCallsIndependent ==
    \A c \in DOMAIN calls :
        /\ \A n \in OwnRequests(c) : calls[c].reqs[n].doc = buildQuery(Alone(c))
        /\ (calls[c].status = "done" /\ calls[c].reqs # <<>>) =>
             CASE calls[c].method = "sync" -> calls[c].result = Obj(calls[c].obj)
               [] calls[c].method \in {"envVariables", "exposedPorts"} -> TRUE
               [] OTHER -> calls[c].result =
                             EngineValue(TypeAt(Operations(Alone(c)), "Client"),
                                         buildQuery(Alone(c)))
        /\ \A k \in DOMAIN calls[c].stack :
             \E p \in DOMAIN calls[c].before :
                FrameNodes(calls[c].stack[k]) =
                    calls[c].before[p] \o
                        (IF k = 1 THEN calls[c].own ELSE <<NewNode("id", <<>>)>>)

\* C8 witness: two calls on the same object were in flight together, each
\* resolved an argument, and both returned.
C8_Witness ==
    \E c1, c2 \in DOMAIN calls :
        /\ c1 # c2
        /\ calls[c1].obj = calls[c2].obj
        /\ calls[c1].conc /\ calls[c2].conc
        /\ calls[c1].nres >= 1 /\ calls[c2].nres >= 1
        /\ calls[c1].status = "done" /\ calls[c2].status = "done"

\* C9 as stated: the tree of a lifted object is the tree of the object it
\* was lifted from followed by a node that selects the array field.
C9_LiftedTreeBelowArrayField ==
    \A o \in LiftedObjs :
        LET p == objs[o].origin.parent IN
        /\ Len(TreeOf(o)) > Len(TreeOf(p))
        /\ SubSeq(TreeOf(o), 1, Len(TreeOf(p))) = TreeOf(p)
        /\ TreeOf(o)[Len(TreeOf(p)) + 1].operation = objs[o].origin.field

\* C10 as stated: an accessor called on a lifted object for a field that was
\* fetched sends no request and, when it returns, returns the fetched value,
\* whatever that value is.
C10_FetchedFieldNeedsNoRequest ==
    \A c \in DOMAIN calls :
        (calls[c].obj \in LiftedObjs /\ Populated(c).t # "undefined") =>
            /\ calls[c].reqs = <<>>
            /\ calls[c].status = "done" => calls[c].result = Populated(c)

\* The trees of all objects, as a call made now would find them.
Trees == [p \in DOMAIN objs |-> TreeOf(p)]

\* The document tree compiled for object o: its tree with every object
\* reference replaced by the identifier of the object referred to.
Compiled(o) == AloneTree(TreeOf(o), Trees)

\* A tree with every object reference replaced by the tree referred to:
\* what the caller asked for, whichever objects stand for it.
RECURSIVE Canon(_)
Canon(tree) ==
    [i \in DOMAIN tree |->
        [operation |-> tree[i].operation,
         args |-> [j \in DOMAIN tree[i].args |->
            IF tree[i].args[j].v.t = "object"
            THEN Prop(tree[i].args[j].k,
                      [t |-> "tree", v |-> Canon(TreeOf(tree[i].args[j].v.v))])
            ELSE tree[i].args[j]]]]

\* b1 and b2 were derived from a by different operations.
Diverge(a, b1, b2) ==
    /\ b1 \in Deferred /\ b2 \in Deferred
    /\ objs[b1].origin.parent = a /\ objs[b2].origin.parent = a
    /\ Canon(TreeOf(b1))[Len(TreeOf(b1))] # Canon(TreeOf(b2))[Len(TreeOf(b2))]

BranchesShareOnlyPrefix ==
    \A a, b1, b2 \in DOMAIN objs :
        Diverge(a, b1, b2) =>
            LET ca == Compiled(a)
                c1 == Compiled(b1)
                c2 == Compiled(b2)
                n  == Len(ca)
            IN  /\ Len(c1) = n + 1 /\ Len(c2) = n + 1
                /\ \A i \in 1..n :
                     /\ RenderNode(c1[i]) = RenderNode(ca[i])
                     /\ RenderNode(c2[i]) = RenderNode(ca[i])
                /\ RenderNode(c1[n + 1]) # RenderNode(c2[n + 1])

\* C11: two objects derived from A by different operations compile to
\* documents that render the nodes of A's tree identically and differ at the
\* appended node; and no step (deriving another branch, resolving one)
\* changes the document compiled for an existing object.  Compiled reads
\* nodes, arrays and objs only, so a step that leaves the three alone
\* leaves every compiled document alone.
C11_BranchesIndependent ==
    [][ \/ UNCHANGED <<nodes, arrays, objs>>
        \/ /\ \A o \in DOMAIN objs : (Compiled(o))' = Compiled(o)
           /\ BranchesShareOnlyPrefix' ]_vars

\* C11 witness: two branches of an object with a non-empty tree, one of
\* them resolved by a call that returned.
C11_Witness ==
    \E a, b1, b2 \in DOMAIN objs :
        /\ Diverge(a, b1, b2)
        /\ TreeOf(a) # <<>>
        /\ \E c \in DOMAIN calls :
             calls[c].obj = b1 /\ calls[c].status = "done" /\ calls[c].nres >= 1

\* The objects a call that returned an array handed to its caller.
Handed(c) ==
    IF calls[c].status = "done" /\ calls[c].result.t = "array"
    THEN {calls[c].result.v[i].v : i \in DOMAIN calls[c].result.v}
    ELSE {}

\* C17: a call whose resolution failed is a failed call: it carries the
\* error, yields no value (sync does not yield the object, an array method
\* yields no array), and lifts nothing: every lifted object was handed out
\* by a call that returned.  A call is failed only with an error.
C17_FailurePropagates ==
    /\ \A c \in DOMAIN calls :
         /\ calls[c].error # "" =>
              /\ calls[c].status = "failed"
              /\ calls[c].result = Undef
         /\ calls[c].status = "failed" => calls[c].error # ""
    /\ LiftedObjs = UNION {Handed(c) : c \in DOMAIN calls}

\* C17 witness: a failed sync() and a failed array call, one of them failed
\* while an argument was being resolved.
C17_Witness ==
    \E c1, c2 \in DOMAIN calls :
        /\ calls[c1].method = "sync" /\ calls[c1].status = "failed"
        /\ calls[c2].method \in {"envVariables", "exposedPorts"}
        /\ calls[c2].status = "failed"
        /\ \E c \in {c1, c2} : Len(calls[c].reqs) >= 2

\* The resolutions a call has started and sent the request of: one for each
\* argument identifier obtained, one for each activation waiting for its
\* response, and the one that ended the call (its own when it returned; the
\* one that failed when it failed: every failure answers a sent request).
\* A call that returned a pre-populated value started none.
Resolutions(c) ==
    calls[c].nres
    + Cardinality({k \in DOMAIN calls[c].stack : calls[c].stack[k].pc = "sent"})
    + (IF calls[c].status # "running" /\ ~Truthy(Populated(c)) THEN 1 ELSE 0)

RECURSIVE RequestsOf(_)
RequestsOf(n) == IF n = 0 THEN 0 ELSE Len(calls[n].reqs) + RequestsOf(n - 1)

\* C20: every resolution sends exactly one request: a call has sent as many
\* requests as it has resolutions that reached the transport step, exactly
\* one of them for its own tree once it returned, and a failed call has
\* sent nothing after (or instead of) the request that failed.  The
\* requests of the calls are all the requests on the network.
C20_OneRequestPerResolution ==
    /\ \A c \in DOMAIN calls :
         /\ Len(calls[c].reqs) = Resolutions(c)
         /\ Cardinality(OwnRequests(c)) <= 1
         /\ (calls[c].status = "done" /\ ~Truthy(Populated(c))) =>
               Cardinality(OwnRequests(c)) = 1
    /\ nsent = RequestsOf(Len(calls))

\* C20 witness: a call that failed at the transport after an argument
\* identifier had been obtained, next to a call that returned.
C20_Witness ==
    \E c1, c2 \in DOMAIN calls :
        /\ calls[c1].status = "failed" /\ calls[c1].error = "TransportError"
        /\ calls[c1].nres >= 1
        /\ calls[c2].status = "done" /\ calls[c2].reqs # <<>>

\* C12: every object obtained by deferred calls or by lifting has the host
\* and the session token of the root it descends from, and no node holds
\* either: a node has an operation name and arguments and nothing else, and
\* no argument is named for, or is, a host or a token.
C12_ContextInherited ==
    /\ \A o \in DOMAIN objs :
         /\ objs[o].host = objs[1].host
         /\ objs[o].sessionToken = objs[1].sessionToken
    /\ \A n \in DOMAIN nodes :
         /\ DOMAIN nodes[n] = {"operation", "args"}
         /\ \A j \in DOMAIN nodes[n].args :
              /\ nodes[n].args[j].k \notin {"host", "sessionToken"}
              /\ nodes[n].args[j].v.t # "chars"

\* C12 witness: under a root made for a host and a token of the caller's, an
\* object two deferred calls away and an object lifted from an array.
C12_Witness ==
    /\ objs # <<>>
    /\ objs[1].host # RootHost
    /\ objs[1].sessionToken = RootToken
    /\ \E o \in Deferred : objs[o].origin.parent \in Deferred
    /\ LiftedObjs # {}

\* C13 as stated: the transport client of every object, and the client
\* every request is sent with, is the one the root was constructed with:
\* same URL (with its ?id=), same Authorization, same session header.
C13_ContextFixedAtRoot ==
    /\ \A o \in DOMAIN objs : objs[o].client = objs[1].client
    /\ \A c \in DOMAIN calls : \A n \in DOMAIN calls[c].reqs :
         calls[c].reqs[n].client = objs[1].client

\* C14 as stated: the Authorization header of every object is "Basic "
\* followed by the base64 of its session token and a colon; so a root and
\* the objects derived from it carry the same header.
C14_AuthorizationFromToken ==
    /\ \A o \in DOMAIN objs :
         objs[o].client.Authorization =
            "Basic " \o Join(btoa(objs[o].sessionToken \o <<":">>))
    /\ \A o \in DOMAIN objs :
         objs[o].client.Authorization = objs[1].client.Authorization

\* The url without its query: scheme, host and path.
Endpoint(o) == Scheme(objs[o].host) \o "://" \o Join(objs[o].host) \o "/query"

\* C15: an object constructed while the environment variable was present
\* has a URL that ends with ?id= and the value, and a session header that
\* carries the same value; an object constructed while it was absent has
\* the bare URL and an empty session header.
C15_SessionIdFromEnvironment ==
    \A o \in DOMAIN objs :
        IF objs[o].born.t # "undefined"
        THEN /\ objs[o].client.url = Endpoint(o) \o "?id=" \o Join(objs[o].born.v)
             /\ objs[o].client.session = Join(objs[o].born.v)
        ELSE /\ objs[o].client.url = Endpoint(o)
             /\ objs[o].client.session = ""

\* C15 witness: three objects of one session, constructed with the variable
\* set, set to the empty string, and absent.
C15_Witness ==
    \E a, b, c \in DOMAIN objs :
        /\ objs[a].born = Chars(<<"s", "1">>)
        /\ objs[b].born = Chars(<<>>)
        /\ objs[c].born = Undef

\* A literal dotted-quad IPv4 address: one to three digits, four times,
\* separated by dots, and nothing else.
RECURSIVE QuadFrom(_, _, _)
QuadFrom(cs, i, g) ==
    IF g = 0
    THEN /\ Len(cs) - i + 1 \in 1..3
         /\ \A k \in i..Len(cs) : In(Digit, cs[k])
    ELSE \E n \in 1..3 :
            /\ i + n <= Len(cs)
            /\ \A k \in i..(i + n - 1) : In(Digit, cs[k])
            /\ cs[i + n] = "."
            /\ QuadFrom(cs, i + n + 1, g - 1)

Local(clientHost) ==
    \/ BeforeColon(clientHost) = <<"l", "o", "c", "a", "l", "h", "o", "s", "t">>
    \/ QuadFrom(BeforeColon(clientHost), 1, 3)

\* C16 as stated: the URL of an object has the scheme http exactly when the
\* host part (before the port) is localhost or a literal dotted-quad IPv4
\* address, and https for every other host.
C16_SchemeByHostPart ==
    \A o \in DOMAIN objs :
        objs[o].client.url =
            (IF Local(objs[o].host) THEN "http" ELSE "https")
            \o "://" \o Join(objs[o].host) \o "/query"
            \o (IF objs[o].born.t # "undefined"
                THEN "?id=" \o Join(objs[o].born.v) ELSE "")

\* The three kinds of failure and what made the call fail.
Kind(reply, path) ==
    CASE reply.cause # "" -> "TransportError"
      [] reply.cause = "" /\ reply.errors # <<>> -> "RemoteOperationError"
      [] reply.cause = "" /\ reply.errors = <<>> /\ ~Walk(reply.data, path).found ->
            "ProtocolMismatchError"
      [] OTHER -> ""

\* C18: a call that failed carries an error of exactly the kind of what
\* made it fail: TransportError with the cause when no response arrived,
\* RemoteOperationError with the first message of the error list and the
\* operation it names, ProtocolMismatchError when a key of the path is
\* missing from the body.
C18_FailureKinds ==
    \A c \in DOMAIN calls :
        calls[c].status = "failed" =>
            /\ calls[c].error \in
                 {"TransportError", "RemoteOperationError", "ProtocolMismatchError"}
            /\ calls[c].error = Kind(calls[c].reply, Path(SentTree(c)))
            /\ calls[c].error = "TransportError" =>
                 /\ calls[c].detail = <<calls[c].reply.cause>>
                 /\ calls[c].reply.cause \in Causes
            /\ calls[c].error = "RemoteOperationError" =>
                 calls[c].detail = <<calls[c].reply.errors[1].message,
                                     calls[c].reply.errors[1].operation>>

\* C18 witness: a call rejected by the engine with a list of two errors.
C18_Witness ==
    \E c \in DOMAIN calls :
        /\ calls[c].status = "failed"
        /\ calls[c].error = "RemoteOperationError"
        /\ Len(calls[c].reply.errors) = 2
        /\ calls[c].reply.errors[1].message # calls[c].reply.errors[2].message

\* C19 as stated: no object holds a tree with a node whose operation name
\* is empty, and no document sent was compiled from such a tree.
C19_NoEmptyOperation ==
    /\ \A o \in DOMAIN objs : \A i \in DOMAIN TreeOf(o) : TreeOf(o)[i].operation # ""
    /\ \A c \in DOMAIN calls : \A n \in DOMAIN calls[c].reqs :
         \A i \in DOMAIN calls[c].reqs[n].tree :
            calls[c].reqs[n].tree[i].operation # ""

\* Values a response may carry innermost.
Probes == {Str("VALUE"), Bool(FALSE), Arr(<<>>), Record(<<Prop("a", Str("b"))>>)}

\* Every node of the tree is a field (the tree does not end with the
\* sub-selection of an array field, which is not a key of the response).
FieldsOnly(tree) == tree[Len(tree)].operation \notin SubSelections

RECURSIVE NestFrom(_, _)
NestFrom(texts, inner) ==
    IF texts = <<>> THEN inner
    ELSE NestFrom(SubSeq(texts, 1, Len(texts) - 1),
                  texts[Len(texts)] \o " { " \o inner \o " }")

Nested(tree) ==
    NestFrom([i \in 1..(Len(tree) - 1) |-> RenderNode(tree[i])],
             RenderNode(tree[Len(tree)]))

\* The trees of the requests sent.
SentTrees ==
    UNION {{calls[c].reqs[n].tree : n \in DOMAIN calls[c].reqs} : c \in DOMAIN calls}

PortNode ==
    NewNode("withExposedPort",
            <<Prop("port", Num(8080)), Prop("protocol", Str("UDP")),
              Prop("description", Str("UDP")), Prop("__metadata", Meta({"protocol"}))>>)

ExecNode ==
    NewNode("withExec",
            <<Prop("args", Arr(<<Str("ls")>>)), Prop("skipEntrypoint", Bool(TRUE))>>)

\* C22: the document of every request is one nested selection, operation 1
\* outermost; a node without arguments is its bare name, a node with
\* arguments is name(key: value, ...) with numbers and booleans unquoted
\* and strings quoted.
C22_DocumentRendering ==
    /\ RenderNode(NewNode("name", <<Prop("x", Num(1)), Prop("y", Str("a"))>>))
         = "name(x: 1, y: \"a\")"
    /\ \A c \in DOMAIN calls : \A n \in DOMAIN calls[c].reqs :
         LET tree == calls[c].reqs[n].tree
             doc == calls[c].reqs[n].doc
         IN  /\ doc = Nested(tree)
             /\ \A i \in DOMAIN tree :
                  /\ tree[i].args = <<>> => RenderNode(tree[i]) = tree[i].operation
                  /\ tree[i] = ExecNode =>
                       RenderNode(tree[i]) = "withExec(args: [\"ls\"], skipEntrypoint: true)"
             /\ (/\ Len(tree) = 4 /\ tree[1].operation = "container"
                 /\ tree[2] = NewNode("withExposedPort",
                                 <<Prop("port", Num(8080)),
                                   Prop("__metadata", Meta({"protocol"}))>>)
                 /\ tree[3] = ExecNode) =>
                  doc = "container { withExposedPort(port: 8080) { "
                        \o "withExec(args: [\"ls\"], skipEntrypoint: true) { sync } } }"

\* C22 witness: a request for a tree of four nodes, with a number, an array
\* of strings and a boolean among its arguments.
C22_Witness ==
    \E tree \in SentTrees :
        /\ Len(tree) = 4
        /\ tree[2].operation = "withExposedPort"
        /\ tree[3] = ExecNode

\* C23: an argument is rendered as a bare symbol exactly when its key is
\* flagged in the node's enum metadata, whatever its value: the argument
\* alone renders as key: value when flagged and as key: "value" (by the
\* rule of its type) when not, and the same string "UDP" renders bare under
\* the flagged key protocol and quoted under the unflagged key description.
C23_EnumByMetadata ==
    \A tree \in SentTrees : \A i \in DOMAIN tree :
        LET args == tree[i].args
            m == Get(args, "__metadata")
            flagged == IF m.t = "metadata" THEN m.v ELSE {}
        IN  /\ \A j \in DOMAIN args :
                 (args[j].k # "__metadata" /\ args[j].v.t = "string") =>
                    RenderNode(NewNode("f", <<args[j], Prop("__metadata", m)>>)) =
                        IF args[j].k \in flagged
                        THEN "f(" \o args[j].k \o ": " \o args[j].v.v \o ")"
                        ELSE "f(" \o args[j].k \o ": \"" \o args[j].v.v \o "\")"
            /\ tree[i] = PortNode =>
                 RenderNode(tree[i]) =
                    "withExposedPort(port: 8080, protocol: UDP, description: \"UDP\")"

\* C23 witness: a request whose tree has the node with the same string
\* under a flagged and an unflagged key.
C23_Witness == \E tree \in SentTrees : \E i \in DOMAIN tree : tree[i] = PortNode

\* C24 as stated: the tree a caller reads through the queryTree accessor of
\* any object has no Enum Metadata entry in the args of any node.
C24_NoMetadataInQueryTree ==
    \A o \in DOMAIN objs : \A i \in DOMAIN Contents(queryTree(o)) :
        \A j \in DOMAIN Contents(queryTree(o))[i].args :
            /\ Contents(queryTree(o))[i].args[j].k # "__metadata"
            /\ Contents(queryTree(o))[i].args[j].v.t # "metadata"

\* The with() invocations recorded.
Withs == {c \in DOMAIN calls : calls[c].method = "with"}

\* C25: A.with(f) returns the object that f made by its deferred call on A:
\* its tree is the tree of A followed by the node of f's method and nothing
\* else, the tree of A is what it was, and no request was sent for it.
C25_WithReturnsWhatFReturns ==
    \A c \in Withs :
        LET A == calls[c].obj
            B == calls[c].result.v
        IN  /\ objs[B].origin = [how |-> "deferred", parent |-> A]
            /\ TreeOf(B) = calls[c].before[A] \o calls[c].own
            /\ TreeOf(A) = calls[c].before[A]
            /\ calls[c].reqs = <<>>
            /\ calls[c].status = "done"
            /\ \A i \in DOMAIN TreeOf(B) : TreeOf(B)[i].operation # "with"

\* C25 witness: with() was called on a container with each of two functions.
C25_Witness ==
    \E c1, c2 \in Withs :
        /\ calls[c1].own # calls[c2].own
        /\ calls[c1].obj = calls[c2].obj
        /\ TreeOf(calls[c1].obj) # <<>>

\* The enum-typed parameters of the methods: operation name to the keys of
\* its parameters (own or of its options record) whose type is an enum.
EnumParams(operation) ==
    CASE operation = "export" -> {"forcedCompression", "mediaTypes"}
      [] operation \in {"withExposedPort", "withoutExposedPort"} -> {"protocol"}
      [] operation = "withMountedCache" -> {"sharing"}
      [] operation = "withKind" -> {"kind"}
      [] OTHER -> {}

\* C27 as stated: every node made by a method that has enum-typed
\* parameters carries Enum Metadata that flags exactly those parameters.
C27_EnumParamsFlagged ==
    \A n \in DOMAIN nodes :
        EnumParams(nodes[n].operation) # {} =>
            EnumKeys(nodes[n].args) = EnumParams(nodes[n].operation)

\* C28 as stated: no operation name and no argument key of a node is one of
\* the host-language identifiers with a trailing underscore.
C28_NoUnderscoreOnWire ==
    \A n \in DOMAIN nodes :
        /\ nodes[n].operation \notin {"import_", "function_", "module_"}
        /\ \A j \in DOMAIN nodes[n].args :
             nodes[n].args[j].k \notin {"import_", "function_", "module_"}

\* The sync() invocations that returned.
Syncs == {c \in DOMAIN calls : calls[c].method = "sync" /\ calls[c].status = "done"}

\* C29: a sync() that succeeded sent, as its one own request, the tree of its
\* object followed by a single sync node, and returned that very object,
\* whose tree is what it was; no object's tree ever holds a sync node, and k
\* calls have sent k such requests.
C29_SyncReturnsThis ==
    /\ \A c \in Syncs :
         LET o == calls[c].obj IN
         /\ calls[c].result = Obj(o)
         /\ TreeOf(o) = calls[c].before[o]
         /\ Cardinality(OwnRequests(c)) = 1
         /\ \A r \in OwnRequests(c) :
              Operations(calls[c].reqs[r].tree)
                = Operations(calls[c].before[o]) \o <<"sync">>
    /\ \A o \in DOMAIN objs : \A i \in DOMAIN TreeOf(o) : TreeOf(o)[i].operation # "sync"

\* C29 witness: sync() has returned twice on one derived container.
C29_Witness ==
    \E c1, c2 \in Syncs :
        /\ c1 # c2
        /\ calls[c1].obj = calls[c2].obj
        /\ TreeOf(calls[c1].obj) # <<>>
        /\ nsent >= 2

\* The constructor parameters of the lifted classes after the parent, in
\* order and without the leading underscore.
Params(cls) ==
    CASE cls = "EnvVariable" -> <<"name", "value">>
      [] cls = "Port" -> <<"description", "port", "protocol">>

\* The names of ks separated by single spaces.
RECURSIVE Words(_)
Words(ks) ==
    IF Len(ks) = 1 THEN ks[1] ELSE ks[1] \o " " \o Words(Tail(ks))

\* The array invocations that returned.
Lifts == {c \in DOMAIN calls : /\ calls[c].method \in {"envVariables", "exposedPorts"}
                               /\ calls[c].status = "done"}

NoHost == objs # <<>> /\ ~Truthy(objs[1].origin.config.host)

\* C26: a root constructed without a host has clientHost 127.0.0.1:8080 and
\* an endpoint URL that is http://127.0.0.1:8080/query (with the session
\* query parameter when the environment has one), and every object derived
\* from it has the same clientHost and such a URL.
C26_DefaultHost ==
    NoHost =>
        \A o \in DOMAIN objs :
            /\ objs[o].host = RootHost
            /\ Join(objs[o].host) = "127.0.0.1:8080"
            /\ objs[o].client.url \in {"http://127.0.0.1:8080/query",
                                       "http://127.0.0.1:8080/query?id=",
                                       "http://127.0.0.1:8080/query?id=s1"}

\* C26 witness: a root constructed with the empty string as host has a
\* derived object two deferred calls away, which has sent a request.
C26_Witness ==
    /\ NoHost
    /\ objs[1].origin.config.host = Chars(<<>>)
    /\ \E o \in DOMAIN objs, c \in DOMAIN calls :
         /\ Len(objs[o].chain) = 2
         /\ calls[c].obj = o
         /\ calls[c].reqs # <<>>
====
